---- MODULE Spec2Model ----
(***************************************************************************)
(* A model of bloomdb's Upsert (the two-transaction version with revision  *)
(* tracking): a producer feeds rows over a channel, Upsert bulk-copies     *)
(* them into a session-local staging table inside a first transaction,     *)
(* creates a unique index and refreshes statistics through the database    *)
(* handle, and merges the staging table into the target table inside a     *)
(* second transaction.                                                     *)
(*                                                                         *)
(* The database handle, a sql.DB, is a pool of sessions.  db.Begin and     *)
(* db.Exec each take some free session of the pool; a transaction holds    *)
(* its session until Commit.  A temporary table lives in the session that  *)
(* created it.  Every database call may fail for reasons of its own (the   *)
(* network, the server), and fails when the statement cannot succeed on    *)
(* the data (the relation exists already, does not exist, a uniqueness     *)
(* violation).                                                             *)
(*                                                                         *)
(* The identifier column of the target table is its primary key (ON        *)
(* CONFLICT needs a unique index on it): unique and NOT NULL.  LIKE copies *)
(* NOT NULL to the staging table.                                          *)
(***************************************************************************)
EXTENDS Integers, Sequences, FiniteSets, TLC

\* Bounds of the model.
MaxRows == 2        \* longest row stream
NumConns == 2       \* sessions the database handle pools
ChanCap == 1        \* capacity of the rows channel

Conns == 1..NumConns

\* The strings a field of a raw row can hold.
IdFields == {"", "a", "b"}
NameFields == {"", "null"}

\* A Go interface{} value handed to the driver: nil or a string.
Nil == [kind |-> "nil"]
Str(s) == [kind |-> "string", val |-> s]

\* Upsert's parameters, fixed here: one target table with an identifier
\* column and one further column.  Names are sequences of characters.
table == <<"s", ".", "t">>
idColumn == "id"
columns == <<"id", "name">>

IdPos == CHOOSE i \in 1..Len(columns) : columns[i] = idColumn
NamePos == CHOOSE i \in 1..Len(columns) : columns[i] # idColumn

\* The raw rows a stream is made of: an empty identifier, one identifier
\* with two different values, a second identifier.
RawRows == {<<"", "null">>, <<"a", "">>, <<"a", "null">>, <<"b", "">>}
Streams == UNION {[1..n -> RawRows] : n \in 0..MaxRows}

Range(s) == {s[i] : i \in 1..Len(s)}

\* strings.Replace(table, ".", "_", -1) + "_temp"
ReplaceDots(name) == [i \in 1..Len(name) |-> IF name[i] = "." THEN "_" ELSE name[i]]
TempTableName(name) == ReplaceDots(name) \o <<"_", "t", "e", "m", "p">>

\* A translation that also takes the word "null" for NULL.
NullTranslateNullWord(rawRow) ==
    [i \in 1..Len(rawRow) |->
        IF rawRow[i] \in {"", "null"} THEN Nil ELSE Str(rawRow[i])]

\* The loop body's translation of a raw row: "" becomes nil, any other
\* string is passed on as it is.
NullTranslate(rawRow) ==
    [i \in 1..Len(rawRow) |-> IF rawRow[i] = "" THEN Nil ELSE Str(rawRow[i])]

(***************************************************************************)
(* The two statements.  The templates are rendered to SQL text, held here  *)
(* as a sequence of tokens; the empty text is the empty sequence.          *)
(***************************************************************************)
EmptySQL == <<>>

UpsertSQL(info) ==
    <<"INSERT INTO", info.Table, info.Columns, "SELECT FROM", info.TempTable,
      "ON CONFLICT", info.IdColumn, "DO UPDATE SET",
      [i \in 1..(Len(info.Columns) - 1) |->
          (IF i < IdPos THEN info.Columns[i] ELSE info.Columns[i + 1])]>>

RevisionSQL(info) ==
    <<"UPDATE", info.Table, "SET revision = revision + 1 FROM", info.TempTable,
      "WHERE", info.IdColumn, "AND DIFFERS">>

\* Where template loading or rendering can fail.
TemplateFaults == {"none", "upsertParse", "upsertExecute",
                   "revisionsParse", "revisionsExecute"}

\* A buildQuery that hands back the rendered merge statement along with the
\* error of the revision template.
buildQueryPartial(tbl, tempTbl, idCol, cols, hasRev, fault) ==
    LET info == [Table |-> tbl, TempTable |-> tempTbl, IdColumn |-> idCol,
                 HasRevisions |-> hasRev, Columns |-> cols]
    IN  IF fault \in {"upsertParse", "upsertExecute"}
        THEN [query |-> EmptySQL, revisionQuery |-> EmptySQL, err |-> TRUE]
        ELSE IF hasRev /\ fault \in {"revisionsParse", "revisionsExecute"}
        THEN [query |-> UpsertSQL(info), revisionQuery |-> EmptySQL, err |-> TRUE]
        ELSE [query |-> UpsertSQL(info),
              revisionQuery |-> IF hasRev THEN RevisionSQL(info) ELSE EmptySQL,
              err |-> FALSE]

buildQuery(tbl, tempTbl, idCol, cols, hasRev, fault) ==
    LET info == [Table |-> tbl, TempTable |-> tempTbl, IdColumn |-> idCol,
                 HasRevisions |-> hasRev, Columns |-> cols]
    IN  IF fault \in {"upsertParse", "upsertExecute"}
        THEN [query |-> EmptySQL, revisionQuery |-> EmptySQL, err |-> TRUE]
        ELSE IF hasRev /\ fault \in {"revisionsParse", "revisionsExecute"}
        THEN [query |-> EmptySQL, revisionQuery |-> EmptySQL, err |-> TRUE]
        ELSE [query |-> UpsertSQL(info),
              revisionQuery |-> IF hasRev THEN RevisionSQL(info) ELSE EmptySQL,
              err |-> FALSE]

(***************************************************************************)
(* The database.  The target table is a set of rows; a staging table holds *)
(* the copied rows in the order they were appended.                        *)
(***************************************************************************)
NoTable == [exists |-> FALSE]
NewTable == [exists |-> TRUE, rows |-> <<>>, indexed |-> FALSE]

Ids == {Str(s) : s \in IdFields \ {""}}

TargetRow(i, n, v) == [id |-> Str(i), name |-> n, revision |-> v]

\* The target tables the first run can find: at most one row per identifier.
InitTargets ==
    { {},
      {TargetRow("a", Str("null"), 0)},
      {TargetRow("a", Nil, 0), TargetRow("b", Nil, 0)} }

HasDuplicateIds(rows) ==
    \E i, j \in 1..Len(rows) : i # j /\ rows[i][IdPos] = rows[j][IdPos]

HasNullId(rows) == \E i \in 1..Len(rows) : rows[i][IdPos] = Nil

\* INSERT INTO target (columns) SELECT columns FROM staging
\* ON CONFLICT (id) DO UPDATE SET <non-identifier columns = staging values>
MergeApply(tgt, rows) ==
    LET ids == {r[IdPos] : r \in Range(rows)}
        old(i) == CHOOSE r \in tgt : r.id = i
    IN  {r \in tgt : r.id \notin ids}
        \cup {[id |-> s[IdPos], name |-> s[NamePos],
               revision |-> IF \E r \in tgt : r.id = s[IdPos]
                            THEN old(s[IdPos]).revision ELSE 0] :
                s \in Range(rows)}

\* UPDATE target SET revision = revision + 1 FROM staging
\* WHERE target.id = staging.id AND <a non-identifier column differs>.
\* With several staging rows for one identifier the server joins the
\* target row to one of them, whichever: every outcome is in the set.
RevisionOutcomes(tgt, rows) ==
    LET verdicts(r) == {s[NamePos] # r.name : s \in {x \in Range(rows) : x[IdPos] = r.id}}
        choices == {b \in [tgt -> BOOLEAN] :
                        \A r \in tgt : IF verdicts(r) = {} THEN ~b[r]
                                       ELSE b[r] \in verdicts(r)}
    IN  {{IF b[r] THEN [r EXCEPT !.revision = @ + 1] ELSE r : r \in tgt} :
            b \in choices}

VARIABLES
    pc,            \* where Upsert is
    hasRevisions,  \* the hasRevisions argument: whether the table tracks revisions
    pending,       \* rows the producer has still to send
    chanBuf,       \* rows in the channel
    chanClosed,    \* the producer has closed the channel
    received,      \* raw rows Upsert has received in this invocation
    query,         \* buildQuery's merge statement
    revisionQuery, \* buildQuery's revision statement
    txn,           \* the session of Upsert's open transaction, if any
    txnTemp,       \* the staging table as the open transaction sees it
    txnTarget,     \* the target table as the open transaction sees it
    open,          \* sessions whose transaction a returned Upsert left open
    locks,         \* identifiers whose target rows those transactions hold locked
    temp,          \* per session: its committed staging table
    target,        \* the committed target table
    target0,       \* the target table when the invocation started
    rowsProcessed, \* Upsert's counter
    issued,        \* the database calls of this invocation, in order, and how each ended
    err,           \* the call whose error Upsert returned, and why it failed
    prev,          \* the previous invocation: did it return nil, on this same stream
    job,           \* concurrent invocations: each one's arguments and locals
    sess,          \* concurrent invocations: per session, its temporary tables by name
    tables         \* concurrent invocations: the committed target tables by name

prodVars == <<pending, chanBuf, chanClosed>>
concVars == <<job, sess, tables>>
callVars == <<hasRevisions, target0, prev, concVars>>
stmtVars == <<query, revisionQuery>>
txnVars == <<txn, txnTemp, txnTarget>>

vars == <<pc, hasRevisions, pending, chanBuf, chanClosed, received, query,
          revisionQuery, txn, txnTemp, txnTarget, open, locks, temp, target,
          target0, rowsProcessed, issued, err, prev, job, sess, tables>>

NoErr == [at |-> "", why |-> ""]

\* A database call has returned without error.
Issued(call) == issued' = Append(issued, [call |-> call, ok |-> TRUE])
NoPrev == [ran |-> FALSE, ok |-> FALSE, same |-> FALSE]

\* The stream of the current invocation, as the producer was given it.
Stream == received \o chanBuf \o pending

\* The sessions the pool can hand out.
Free == Conns \ (txn \cup open)

Init ==
    /\ pc = "Idle"
    /\ hasRevisions \in BOOLEAN
    /\ pending = <<>>
    /\ chanBuf = <<>>
    /\ chanClosed = FALSE
    /\ received = <<>>
    /\ query = EmptySQL
    /\ revisionQuery = EmptySQL
    /\ txn = {}
    /\ txnTemp = NoTable
    /\ txnTarget = {}
    /\ open = {}
    /\ locks = {}
    /\ temp = [c \in Conns |-> NoTable]
    /\ target \in InitTargets
    /\ target0 = target
    /\ rowsProcessed = 0
    /\ issued = <<>>
    /\ err = NoErr
    /\ prev = NoPrev
    /\ job = <<>>
    /\ sess = <<>>
    /\ tables = <<>>

\* An Upsert that starts over from buildQuery when a call fails, instead of
\* returning the error.
ReturnErrRestarts(at, why) ==
    /\ pc' = "buildQuery"
    /\ err' = [at |-> at, why |-> why]
    /\ issued' = IF at = "buildQuery" THEN issued
                 ELSE Append(issued, [call |-> at, ok |-> FALSE])
    /\ open' = open \cup txn
    /\ locks' = locks \cup {r.id : r \in txnTarget \ target}
    /\ txn' = {}
    /\ txnTemp' = NoTable
    /\ txnTarget' = {}

\* Upsert returns the error of the call `at`.  No path of Upsert calls
\* Rollback: a transaction that is open stays open, its session is never
\* handed back to the pool, and the rows it wrote stay locked.
ReturnErr(at, why) ==
    /\ pc' = "Failed"
    /\ err' = [at |-> at, why |-> why]
    /\ issued' = IF at = "buildQuery" THEN issued
                 ELSE Append(issued, [call |-> at, ok |-> FALSE])
    /\ open' = open \cup txn
    /\ locks' = locks \cup {r.id : r \in txnTarget \ target}
    /\ txn' = {}
    /\ txnTemp' = NoTable
    /\ txnTarget' = {}

\* The caller starts a producer on a fresh channel and calls Upsert: a first
\* invocation, and a second one after the first has returned.
Invoke ==
    /\ \/ pc = "Idle"
       \/ pc \in {"Done", "Failed"} /\ ~prev.ran
    /\ \E s \in Streams :
        /\ pending' = s
        /\ prev' = [ran |-> pc # "Idle", ok |-> pc = "Done",
                     same |-> pc # "Idle" /\ s = Stream]
    /\ chanBuf' = <<>>
    /\ chanClosed' = FALSE
    /\ received' = <<>>
    /\ query' = EmptySQL
    /\ revisionQuery' = EmptySQL
    /\ target0' = target
    /\ rowsProcessed' = 0
    /\ issued' = <<>>
    /\ err' = NoErr
    /\ pc' = "buildQuery"
    /\ UNCHANGED <<hasRevisions, txnVars, open, locks, temp, target, concVars>>

\* The producer sends its next row.
Send ==
    /\ pc # "Idle"
    /\ ~chanClosed
    /\ pending # <<>>
    /\ Len(chanBuf) < ChanCap
    /\ chanBuf' = Append(chanBuf, Head(pending))
    /\ pending' = Tail(pending)
    /\ UNCHANGED <<pc, callVars, chanClosed, received, stmtVars, txnVars, open,
                   locks, temp, target, rowsProcessed, issued, err>>

\* The producer closes the channel after its last row.
Close ==
    /\ pc # "Idle"
    /\ ~chanClosed
    /\ pending = <<>>
    /\ chanClosed' = TRUE
    /\ UNCHANGED <<pc, callVars, pending, chanBuf, received, stmtVars, txnVars,
                   open, locks, temp, target, rowsProcessed, issued, err>>

\* query, revisionQuery, err := buildQuery(...); if err != nil { return err }
BuildQuery ==
    /\ pc = "buildQuery"
    /\ \E fault \in TemplateFaults :
        LET b == buildQuery(table, TempTableName(table), idColumn, columns,
                            hasRevisions, fault)
        IN  /\ query' = b.query
            /\ revisionQuery' = b.revisionQuery
            /\ IF b.err
               THEN ReturnErr("buildQuery", "template")
               ELSE /\ pc' = "Begin1"
                    /\ UNCHANGED <<issued, err, open, locks, txnVars>>
    /\ UNCHANGED <<callVars, prodVars, received, temp, target, rowsProcessed>>

\* txn, err := db.Begin(): the pool hands out one of its free sessions.
Begin1 ==
    /\ pc = "Begin1"
    /\ \/ ReturnErr("Begin1", "injected")
       \/ \E c \in Free :
            /\ txn' = {c}
            /\ txnTemp' = temp[c]
            /\ pc' = "CreateTemp"
            /\ Issued("Begin1")
            /\ UNCHANGED <<txnTarget, open, locks, err>>
    /\ UNCHANGED <<callVars, prodVars, received, stmtVars, temp, target, rowsProcessed>>

\* txn.Exec("CREATE TEMP TABLE " + tempTable + "(LIKE " + table + ")")
CreateTemp ==
    /\ pc = "CreateTemp"
    /\ \/ ReturnErr("CreateTemp", "injected")
       \/ /\ txnTemp.exists
          /\ ReturnErr("CreateTemp", "relation exists")
       \/ /\ ~txnTemp.exists
          /\ txnTemp' = NewTable
          /\ pc' = "Prepare"
          /\ Issued("CreateTemp")
          /\ UNCHANGED <<txn, txnTarget, open, locks, err>>
    /\ UNCHANGED <<callVars, prodVars, received, stmtVars, temp, target, rowsProcessed>>

\* stmt, err := txn.Prepare(pq.CopyIn(tempTable, columns...))
Prepare ==
    /\ pc = "Prepare"
    /\ \/ ReturnErr("Prepare", "injected")
       \/ /\ pc' = "Loop"
          /\ Issued("Prepare")
          /\ UNCHANGED <<txnVars, open, locks, err>>
    /\ UNCHANGED <<callVars, prodVars, received, stmtVars, temp, target, rowsProcessed>>

\* One iteration of `for rawRow := range rows`: receive, translate, append.
LoopRow ==
    /\ pc = "Loop"
    /\ chanBuf # <<>>
    /\ LET rawRow == Head(chanBuf)
           row == NullTranslate(rawRow)
       IN  /\ chanBuf' = Tail(chanBuf)
           /\ received' = Append(received, rawRow)
           /\ \/ /\ ReturnErr("Append", "injected")
                 /\ UNCHANGED rowsProcessed
              \/ /\ txnTemp' = [txnTemp EXCEPT !.rows = Append(@, row)]
                 /\ rowsProcessed' = rowsProcessed + 1
                 /\ Issued("Append")
                 /\ UNCHANGED <<pc, txn, txnTarget, open, locks, err>>
    /\ UNCHANGED <<callVars, pending, chanClosed, stmtVars, temp, target>>

\* The channel is closed and drained: the loop ends.
LoopEnd ==
    /\ pc = "Loop"
    /\ chanBuf = <<>>
    /\ chanClosed
    /\ pc' = "CopyEnd"
    /\ UNCHANGED <<callVars, prodVars, received, stmtVars, txnVars, open, locks,
                   temp, target, rowsProcessed, issued, err>>

\* _, err = stmt.Exec(): the copy is flushed; the server rejects a NULL
\* identifier here at the latest.
CopyEnd ==
    /\ pc = "CopyEnd"
    /\ \/ ReturnErr("CopyEnd", "injected")
       \/ /\ HasNullId(txnTemp.rows)
          /\ ReturnErr("CopyEnd", "not null")
       \/ /\ ~HasNullId(txnTemp.rows)
          /\ pc' = "StmtClose"
          /\ Issued("CopyEnd")
          /\ UNCHANGED <<txnVars, open, locks, err>>
    /\ UNCHANGED <<callVars, prodVars, received, stmtVars, temp, target, rowsProcessed>>

\* err = stmt.Close()
StmtClose ==
    /\ pc = "StmtClose"
    /\ \/ ReturnErr("StmtClose", "injected")
       \/ /\ pc' = "Commit1"
          /\ Issued("StmtClose")
          /\ UNCHANGED <<txnVars, open, locks, err>>
    /\ UNCHANGED <<callVars, prodVars, received, stmtVars, temp, target, rowsProcessed>>

\* Commit returns an error.  A failed Commit ends the transaction all the
\* same: the server rolls it back and the session goes back to the pool.
CommitErr(at) ==
    /\ pc' = "Failed"
    /\ err' = [at |-> at, why |-> "injected"]
    /\ issued' = Append(issued, [call |-> at, ok |-> FALSE])
    /\ txn' = {}
    /\ txnTemp' = NoTable
    /\ txnTarget' = {}
    /\ UNCHANGED <<open, locks>>

\* An Upsert that does not commit the load before it goes on: one
\* transaction for the load and the merge.
Commit1Deferred ==
    /\ pc = "Commit1"
    /\ pc' = "CreateIndex"
    /\ UNCHANGED <<callVars, prodVars, received, stmtVars, txnVars, open, locks,
                   temp, target, rowsProcessed, issued, err>>

\* err = txn.Commit(): the staging table becomes the session's own.
Commit1 ==
    /\ pc = "Commit1"
    /\ \/ /\ CommitErr("Commit1")
          /\ UNCHANGED temp
       \/ /\ temp' = [c \in Conns |-> IF c \in txn THEN txnTemp ELSE temp[c]]
          /\ txn' = {}
          /\ txnTemp' = NoTable
          /\ pc' = "CreateIndex"
          /\ Issued("Commit1")
          /\ UNCHANGED <<txnTarget, open, locks, err>>
    /\ UNCHANGED <<callVars, prodVars, received, stmtVars, target, rowsProcessed>>

\* A CREATE UNIQUE INDEX whose error is dropped like that of ANALYZE.
CreateIndexUnchecked ==
    /\ pc = "CreateIndex"
    /\ \E ok \in BOOLEAN :
        issued' = Append(issued, [call |-> "CreateIndex", ok |-> ok])
    /\ pc' = "Analyze"
    /\ UNCHANGED <<callVars, prodVars, received, stmtVars, txnVars, open, locks,
                   temp, target, rowsProcessed, err>>

\* _, err = db.Exec("CREATE UNIQUE INDEX ON " + tempTable + "(" + idColumn + ")"),
\* on whichever free session the pool hands out; if err != nil { return err }
CreateIndex ==
    /\ pc = "CreateIndex"
    /\ \/ /\ ReturnErr("CreateIndex", "injected")
          /\ UNCHANGED temp
       \/ \E c \in Free :
            \/ /\ ~temp[c].exists
               /\ ReturnErr("CreateIndex", "no relation")
               /\ UNCHANGED temp
            \/ /\ temp[c].exists
               /\ HasDuplicateIds(temp[c].rows)
               /\ ReturnErr("CreateIndex", "duplicate key")
               /\ UNCHANGED temp
            \/ /\ temp[c].exists
               /\ ~HasDuplicateIds(temp[c].rows)
               /\ temp' = [temp EXCEPT ![c].indexed = TRUE]
               /\ pc' = "Analyze"
               /\ Issued("CreateIndex")
               /\ UNCHANGED <<txnVars, open, locks, err>>
    /\ UNCHANGED <<callVars, prodVars, received, stmtVars, target, rowsProcessed>>

\* An ANALYZE whose error is returned like that of every other call.
AnalyzeFatal ==
    /\ pc = "Analyze"
    /\ \/ /\ ReturnErr("Analyze", "injected")
       \/ /\ Issued("Analyze")
          /\ pc' = "Begin2"
          /\ UNCHANGED <<txnVars, open, locks, err>>
    /\ UNCHANGED <<callVars, prodVars, received, stmtVars, temp, target, rowsProcessed>>

\* _, err = db.Exec("ANALYZE " + tempTable); txn, err = db.Begin()
\* The error of ANALYZE is overwritten by the next assignment without
\* having been looked at: Upsert goes on whether the call failed or not.
Analyze ==
    /\ pc = "Analyze"
    /\ \E ok \in BOOLEAN :
        issued' = Append(issued, [call |-> "Analyze", ok |-> ok])
    /\ pc' = "Begin2"
    /\ UNCHANGED <<callVars, prodVars, received, stmtVars, txnVars, open, locks,
                   temp, target, rowsProcessed, err>>

\* An Upsert that goes from Begin straight to the merge statement.
Begin2SkipsRevision ==
    /\ pc = "Begin2"
    /\ \/ ReturnErr("Begin2", "injected")
       \/ \E c \in Free :
            /\ txn' = {c}
            /\ txnTemp' = temp[c]
            /\ txnTarget' = target
            /\ pc' = "Merge"
            /\ Issued("Begin2")
            /\ UNCHANGED <<open, locks, err>>
    /\ UNCHANGED <<callVars, prodVars, received, stmtVars, temp, target, rowsProcessed>>

\* txn, err = db.Begin(); if revisionQuery != "" { ... }
Begin2 ==
    /\ pc = "Begin2"
    /\ \/ ReturnErr("Begin2", "injected")
       \/ \E c \in Free :
            /\ txn' = {c}
            /\ txnTemp' = temp[c]
            /\ txnTarget' = target
            /\ pc' = IF revisionQuery # EmptySQL THEN "Revision" ELSE "Merge"
            /\ Issued("Begin2")
            /\ UNCHANGED <<open, locks, err>>
    /\ UNCHANGED <<callVars, prodVars, received, stmtVars, temp, target, rowsProcessed>>

\* The identifiers of the target rows a statement's outcome writes.
Written(before, after) == {r.id : r \in after \ before}

\* res, err := txn.Exec(revisionQuery).  A row another transaction holds
\* locked makes the statement wait for that transaction to end.
Revision ==
    /\ pc = "Revision"
    /\ \/ ReturnErr("Revision", "injected")
       \/ /\ ~txnTemp.exists
          /\ ReturnErr("Revision", "no relation")
       \/ /\ txnTemp.exists
          /\ \E t \in RevisionOutcomes(txnTarget, txnTemp.rows) :
                /\ Written(txnTarget, t) \cap locks = {}
                /\ txnTarget' = t
          /\ pc' = "Merge"
          /\ Issued("Revision")
          /\ UNCHANGED <<txn, txnTemp, open, locks, err>>
    /\ UNCHANGED <<callVars, prodVars, received, stmtVars, temp, target, rowsProcessed>>

\* _, err = txn.Exec(query).  ON CONFLICT DO UPDATE refuses to affect a row
\* a second time, so two staging rows with one identifier fail it.
Merge ==
    /\ pc = "Merge"
    /\ \/ ReturnErr("Merge", "injected")
       \/ /\ ~txnTemp.exists
          /\ ReturnErr("Merge", "no relation")
       \/ /\ txnTemp.exists
          /\ HasDuplicateIds(txnTemp.rows)
          /\ ReturnErr("Merge", "cardinality")
       \/ /\ txnTemp.exists
          /\ ~HasDuplicateIds(txnTemp.rows)
          /\ {r[IdPos] : r \in Range(txnTemp.rows)} \cap locks = {}
          /\ txnTarget' = MergeApply(txnTarget, txnTemp.rows)
          /\ pc' = "Commit2"
          /\ Issued("Merge")
          /\ UNCHANGED <<txn, txnTemp, open, locks, err>>
    /\ UNCHANGED <<callVars, prodVars, received, stmtVars, temp, target, rowsProcessed>>

\* err = txn.Commit(); return nil
Commit2 ==
    /\ pc = "Commit2"
    /\ \/ /\ CommitErr("Commit2")
          /\ UNCHANGED target
       \/ /\ target' = txnTarget
          /\ txn' = {}
          /\ txnTemp' = NoTable
          /\ txnTarget' = {}
          /\ pc' = "Done"
          /\ Issued("Commit2")
          /\ UNCHANGED <<open, locks, err>>
    /\ UNCHANGED <<callVars, prodVars, received, stmtVars, temp, rowsProcessed>>

Next ==
    \/ Invoke
    \/ Send
    \/ Close
    \/ BuildQuery
    \/ Begin1
    \/ CreateTemp
    \/ Prepare
    \/ LoopRow
    \/ LoopEnd
    \/ CopyEnd
    \/ StmtClose
    \/ Commit1
    \/ CreateIndex
    \/ Analyze
    \/ Begin2
    \/ Revision
    \/ Merge
    \/ Commit2

Spec == Init /\ [][Next]_vars

\* The producer and Upsert are goroutines the scheduler keeps running, and
\* every database call returns: each of their steps is taken if it stays
\* possible.  Nothing makes the caller invoke Upsert again.
Fairness ==
    /\ WF_vars(Send)
    /\ WF_vars(Close)
    /\ WF_vars(BuildQuery)
    /\ WF_vars(Begin1)
    /\ WF_vars(CreateTemp)
    /\ WF_vars(Prepare)
    /\ WF_vars(LoopRow)
    /\ WF_vars(LoopEnd)
    /\ WF_vars(CopyEnd)
    /\ WF_vars(StmtClose)
    /\ WF_vars(Commit1)
    /\ WF_vars(CreateIndex)
    /\ WF_vars(Analyze)
    /\ WF_vars(Begin2)
    /\ WF_vars(Revision)
    /\ WF_vars(Merge)
    /\ WF_vars(Commit2)

LiveSpec == Init /\ [][Next]_vars /\ Fairness

(***************************************************************************)
(* Two invocations of Upsert running concurrently on one database handle,  *)
(* each with its own target table, its own stream and its own channel.     *)
(* What they share is the handle: the pool's sessions and the temporary    *)
(* tables living in them.  Every database call answers as the server must; *)
(* a call fails only when its statement cannot succeed.                    *)
(***************************************************************************)
Jobs == {"A", "B"}

\* The target table names the two invocations are given: two different names.
TableNames == {<<"s", ".", "t">>, <<"s", "_", "t">>, <<"u">>}

\* The staging table names Upsert can derive from them.
StagingNames == {TempTableName(n) : n \in TableNames}

\* The streams the two invocations are given.
ConcStreams == {<<>>, <<<<"a", "">>>>, <<<<"b", "">>>>}

\* What each target table holds when the invocations start.
ConcTarget == {TargetRow("a", Str("null"), 0)}

NewJob(tbl, rows) ==
    [pc |-> "Idle", table |-> tbl, rows |-> rows, tempTable |-> <<>>,
     query |-> EmptySQL, revisionQuery |-> EmptySQL, txn |-> {},
     txnTarget |-> {}, rowsProcessed |-> 0, why |-> ""]

\* The sessions the pool can hand out: those no transaction holds.  The
\* transaction of an Upsert that returned an error still holds its session.
JFree == Conns \ UNION {job[q].txn : q \in Jobs}

ConcInit ==
    /\ pc = "Idle"
    /\ hasRevisions \in BOOLEAN
    /\ pending = <<>>
    /\ chanBuf = <<>>
    /\ chanClosed = FALSE
    /\ received = <<>>
    /\ query = EmptySQL
    /\ revisionQuery = EmptySQL
    /\ txn = {}
    /\ txnTemp = NoTable
    /\ txnTarget = {}
    /\ open = {}
    /\ locks = {}
    /\ temp = [c \in Conns |-> NoTable]
    /\ target = {}
    /\ target0 = {}
    /\ rowsProcessed = 0
    /\ issued = <<>>
    /\ err = NoErr
    /\ prev = NoPrev
    /\ \E ta, tb \in TableNames : \E ra, rb \in ConcStreams :
        /\ ta # tb
        /\ job = [p \in Jobs |-> IF p = "A" THEN NewJob(ta, ra) ELSE NewJob(tb, rb)]
        /\ tables = [n \in {ta, tb} |-> ConcTarget]
    /\ sess = [c \in Conns |-> [n \in StagingNames |-> NoTable]]

mainVars == <<pc, hasRevisions, pending, chanBuf, chanClosed, received, query,
              revisionQuery, txn, txnTemp, txnTarget, open, locks, temp, target,
              target0, rowsProcessed, issued, err, prev>>

\* Invocation p returns the error of its call; its transaction, if one is
\* open, stays open.
JReturnErr(p, why) ==
    job' = [job EXCEPT ![p].pc = "Failed", ![p].why = why]

\* tempTable := ...; query, revisionQuery, err := buildQuery(...)
JBuildQuery(p) ==
    /\ job[p].pc = "Idle"
    /\ LET tempTable == TempTableName(job[p].table)
           b == buildQuery(job[p].table, tempTable, idColumn, columns,
                           hasRevisions, "none")
       IN  job' = [job EXCEPT ![p].tempTable = tempTable,
                              ![p].query = b.query,
                              ![p].revisionQuery = b.revisionQuery,
                              ![p].pc = "Begin1"]
    /\ UNCHANGED <<mainVars, sess, tables>>

\* txn, err := db.Begin()
JBegin1(p) ==
    /\ job[p].pc = "Begin1"
    /\ \E c \in JFree :
        job' = [job EXCEPT ![p].txn = {c}, ![p].pc = "CreateTemp"]
    /\ UNCHANGED <<mainVars, sess, tables>>

\* txn.Exec("CREATE TEMP TABLE " + tempTable + "(LIKE " + table + ")")
JCreateTemp(p) ==
    /\ job[p].pc = "CreateTemp"
    /\ \E c \in job[p].txn :
        IF sess[c][job[p].tempTable].exists
        THEN /\ JReturnErr(p, "relation exists")
             /\ UNCHANGED sess
        ELSE /\ sess' = [sess EXCEPT ![c][job[p].tempTable] = NewTable]
             /\ job' = [job EXCEPT ![p].pc = "Prepare"]
    /\ UNCHANGED <<mainVars, tables>>

\* stmt, err := txn.Prepare(pq.CopyIn(tempTable, columns...))
JPrepare(p) ==
    /\ job[p].pc = "Prepare"
    /\ job' = [job EXCEPT ![p].pc = "Loop"]
    /\ UNCHANGED <<mainVars, sess, tables>>

\* One iteration of `for rawRow := range rows`, on the next row of the stream.
JLoopRow(p) ==
    /\ job[p].pc = "Loop"
    /\ job[p].rowsProcessed < Len(job[p].rows)
    /\ LET rawRow == job[p].rows[job[p].rowsProcessed + 1]
           row == NullTranslate(rawRow)
       IN  \E c \in job[p].txn :
            sess' = [sess EXCEPT ![c][job[p].tempTable].rows = Append(@, row)]
    /\ job' = [job EXCEPT ![p].rowsProcessed = @ + 1]
    /\ UNCHANGED <<mainVars, tables>>

\* The stream is exhausted and the channel closed: the loop ends.
JLoopEnd(p) ==
    /\ job[p].pc = "Loop"
    /\ job[p].rowsProcessed = Len(job[p].rows)
    /\ job' = [job EXCEPT ![p].pc = "CopyEnd"]
    /\ UNCHANGED <<mainVars, sess, tables>>

\* _, err = stmt.Exec()
JCopyEnd(p) ==
    /\ job[p].pc = "CopyEnd"
    /\ \E c \in job[p].txn :
        IF HasNullId(sess[c][job[p].tempTable].rows)
        THEN JReturnErr(p, "not null")
        ELSE job' = [job EXCEPT ![p].pc = "StmtClose"]
    /\ UNCHANGED <<mainVars, sess, tables>>

\* err = stmt.Close()
JStmtClose(p) ==
    /\ job[p].pc = "StmtClose"
    /\ job' = [job EXCEPT ![p].pc = "Commit1"]
    /\ UNCHANGED <<mainVars, sess, tables>>

\* err = txn.Commit(): the session goes back to the pool, the staging table
\* stays in it.
JCommit1(p) ==
    /\ job[p].pc = "Commit1"
    /\ job' = [job EXCEPT ![p].txn = {}, ![p].pc = "CreateIndex"]
    /\ UNCHANGED <<mainVars, sess, tables>>

\* _, err = db.Exec("CREATE UNIQUE INDEX ON " + tempTable + "(" + idColumn + ")")
JCreateIndex(p) ==
    /\ job[p].pc = "CreateIndex"
    /\ \E c \in JFree :
        LET t == sess[c][job[p].tempTable]
        IN  IF ~t.exists
            THEN JReturnErr(p, "no relation") /\ UNCHANGED sess
            ELSE IF HasDuplicateIds(t.rows)
            THEN JReturnErr(p, "duplicate key") /\ UNCHANGED sess
            ELSE /\ sess' = [sess EXCEPT ![c][job[p].tempTable].indexed = TRUE]
                 /\ job' = [job EXCEPT ![p].pc = "Analyze"]
    /\ UNCHANGED <<mainVars, tables>>

\* _, err = db.Exec("ANALYZE " + tempTable), its error never looked at
JAnalyze(p) ==
    /\ job[p].pc = "Analyze"
    /\ JFree # {}
    /\ job' = [job EXCEPT ![p].pc = "Begin2"]
    /\ UNCHANGED <<mainVars, sess, tables>>

\* txn, err = db.Begin(); if revisionQuery != "" { ... }
JBegin2(p) ==
    /\ job[p].pc = "Begin2"
    /\ \E c \in JFree :
        job' = [job EXCEPT ![p].txn = {c},
                           ![p].txnTarget = tables[job[p].table],
                           ![p].pc = IF job[p].revisionQuery # EmptySQL
                                     THEN "Revision" ELSE "Merge"]
    /\ UNCHANGED <<mainVars, sess, tables>>

\* res, err := txn.Exec(revisionQuery)
JRevision(p) ==
    /\ job[p].pc = "Revision"
    /\ \E c \in job[p].txn :
        LET t == sess[c][job[p].tempTable]
        IN  IF ~t.exists
            THEN JReturnErr(p, "no relation")
            ELSE \E after \in RevisionOutcomes(job[p].txnTarget, t.rows) :
                    job' = [job EXCEPT ![p].txnTarget = after, ![p].pc = "Merge"]
    /\ UNCHANGED <<mainVars, sess, tables>>

\* _, err = txn.Exec(query)
JMerge(p) ==
    /\ job[p].pc = "Merge"
    /\ \E c \in job[p].txn :
        LET t == sess[c][job[p].tempTable]
        IN  IF ~t.exists
            THEN JReturnErr(p, "no relation")
            ELSE IF HasDuplicateIds(t.rows)
            THEN JReturnErr(p, "cardinality")
            ELSE job' = [job EXCEPT ![p].txnTarget = MergeApply(@, t.rows),
                                    ![p].pc = "Commit2"]
    /\ UNCHANGED <<mainVars, sess, tables>>

\* err = txn.Commit(); return nil
JCommit2(p) ==
    /\ job[p].pc = "Commit2"
    /\ tables' = [tables EXCEPT ![job[p].table] = job[p].txnTarget]
    /\ job' = [job EXCEPT ![p].txn = {}, ![p].txnTarget = {}, ![p].pc = "Done"]
    /\ UNCHANGED <<mainVars, sess>>

ConcNext ==
    \E p \in Jobs :
        \/ JBuildQuery(p)
        \/ JBegin1(p)
        \/ JCreateTemp(p)
        \/ JPrepare(p)
        \/ JLoopRow(p)
        \/ JLoopEnd(p)
        \/ JCopyEnd(p)
        \/ JStmtClose(p)
        \/ JCommit1(p)
        \/ JCreateIndex(p)
        \/ JAnalyze(p)
        \/ JBegin2(p)
        \/ JRevision(p)
        \/ JMerge(p)
        \/ JCommit2(p)

ConcSpec == ConcInit /\ [][ConcNext]_vars

(***************************************************************************)
(* What the claims speak of.                                               *)
(***************************************************************************)
Returned == pc \in {"Done", "Failed"}

\* No two rows of the stream share an identifier value.
DupFree(s) == \A i, j \in 1..Len(s) : i # j => s[i][IdPos] # s[j][IdPos]

\* What the table is to hold for a field of the stream.
StoredAs(f) == IF f = "" THEN Nil ELSE Str(f)

\* The calls of this invocation so far, by name.
Calls == {issued[k].call : k \in 1..Len(issued)}

MergePhase == {"Begin2", "Revision", "Merge", "Commit2"}

\* A call that failed for reasons of its own, not for what the run did.
OwnReasons == {"injected", "template"}

\* C1: for a stream without duplicate identifiers, when Upsert has returned
\* nil the target table holds exactly one row for each identifier of the
\* stream, with the value the stream carried for it.
C1_TargetHoldsStream ==
    (pc = "Done" /\ DupFree(Stream)) =>
        \A i \in 1..Len(Stream) :
            LET m == {r \in target : r.id = Str(Stream[i][IdPos])}
            IN  /\ Cardinality(m) = 1
                /\ \A r \in m : r.name = StoredAs(Stream[i][NamePos])

\* C2: a stream with two rows of one identifier never gets past the unique
\* index: Upsert fails, the merge transaction is not opened, neither the
\* revision nor the merge statement is executed, the target table stays as
\* it was.
C2_DuplicatesStopAtIndex ==
    ~DupFree(Stream) =>
        /\ pc # "Done"
        /\ Calls \cap MergePhase = {}
        /\ "Analyze" \notin Calls
        /\ target = target0

\* C3: when the revision statement, the merge statement or the commit of the
\* merge transaction fails, Upsert returns with that transaction rolled
\* back: not committed, and not left open.
C3_MergeFailureRollsBack ==
    [][(pc \in {"Revision", "Merge", "Commit2"} /\ pc' = "Failed")
        => (open' = open /\ target' = target)]_vars

\* C4: when appending a row fails, Upsert returns with the staging-load
\* transaction rolled back (not committed, not left open), nothing of the
\* load is committed and no later call is made.
C4_AppendFailureRollsBack ==
    [][(pc = "Loop" /\ pc' = "Failed")
        => (open' = open /\ temp' = temp /\ target' = target)]_vars

\* C5: a second invocation with the stream of a first, successful one (no
\* duplicate identifiers), on the same database handle, completes unless a
\* call fails for reasons of its own, and leaves the target table as it
\* was, revision counters included.
C5_SecondRunIdempotent ==
    (prev.ran /\ prev.ok /\ prev.same /\ DupFree(Stream) /\ Returned) =>
        /\ pc = "Failed" => err.why \in OwnReasons
        /\ target = target0

\* The rows of the target table the stream changes the value of.
Changed == {r \in target0 : \E i \in 1..Len(Stream) :
                /\ r.id = Str(Stream[i][IdPos])
                /\ r.name # StoredAs(Stream[i][NamePos])}

\* C6: with revision tracking, a successful run whose stream changes the
\* value of exactly one existing row raises that row's revision counter by
\* exactly 1 and leaves the counter of every other row as it was.
C6_OneRevisionBump ==
    (hasRevisions /\ pc = "Done" /\ DupFree(Stream) /\ Cardinality(Changed) = 1) =>
        \A r \in target0 : \E q \in target :
            /\ q.id = r.id
            /\ q.revision = IF r \in Changed THEN r.revision + 1 ELSE r.revision

\* C8: once Upsert has returned, the staging table exists on no session of
\* the database handle.
C8_StagingGoneOnReturn ==
    Returned => \A c \in Conns : ~temp[c].exists

\* C7: every row appended to the copy has the length and the field order of
\* the raw row received, holds NULL exactly where the raw field is the empty
\* string, and holds every other field as the string it was.
C7_NullIffEmpty ==
    (pc \in {"Loop", "CopyEnd", "StmtClose", "Commit1"}) =>
        /\ Len(txnTemp.rows) = Len(received)
        /\ \A k \in 1..Len(received) :
            LET raw == received[k]
                row == txnTemp.rows[k]
            IN  /\ Len(row) = Len(raw)
                /\ \A j \in 1..Len(raw) :
                    /\ (row[j] = Nil) <=> (raw[j] = "")
                    /\ raw[j] # "" => row[j] = Str(raw[j])

\* The copy holds a NULL and holds the word "null" as a string.
C7_Witness ==
    /\ pc = "CopyEnd"
    /\ \E k \in 1..Len(txnTemp.rows) : txnTemp.rows[k][NamePos] = Nil
    /\ \E k \in 1..Len(txnTemp.rows) :
        received[k][NamePos] = "null" /\ txnTemp.rows[k][NamePos] = Str("null")

\* C9: when a template fails to load or render, buildQuery returns the error
\* with both statements empty, and Upsert returns it having opened no
\* transaction, made no database call and received no row.
C9_BuildErrorBeforeAnyIO ==
    (pc = "Failed" /\ err.at = "buildQuery") =>
        /\ query = EmptySQL
        /\ revisionQuery = EmptySQL
        /\ issued = <<>>
        /\ txn = {}
        /\ received = <<>>
        /\ rowsProcessed = 0
        /\ target = target0

\* The revision template failed while the producer had a row in the channel.
C9_Witness ==
    /\ pc = "Failed"
    /\ err.at = "buildQuery"
    /\ hasRevisions
    /\ chanBuf # <<>>

\* C10: Upsert never returns the error of ANALYZE, and goes on to open the
\* merge transaction after a failed ANALYZE; a failed CREATE UNIQUE INDEX is
\* the last call Upsert makes, and its error is what Upsert returns.
C10_AnalyzeNotFatalIndexFatal ==
    /\ pc = "Failed" => err.at # "Analyze"
    /\ \A k \in 1..Len(issued) :
        /\ (issued[k].call = "Analyze" /\ ~issued[k].ok) =>
                IF k = Len(issued) THEN pc = "Begin2"
                ELSE issued[k + 1].call = "Begin2"
        /\ (issued[k].call = "CreateIndex" /\ ~issued[k].ok) =>
                /\ k = Len(issued)
                /\ pc = "Failed"
                /\ err.at = "CreateIndex"

\* A run whose ANALYZE failed has merged its rows and returned nil.
C10_Witness ==
    /\ pc = "Done"
    /\ [call |-> "Analyze", ok |-> FALSE] \in Range(issued)
    /\ received # <<>>

\* C11: for the empty stream, Upsert completes unless a call fails for
\* reasons of its own; it has then counted no row, and it leaves the target
\* table as it was.
C11_EmptyStreamNoChange ==
    (Returned /\ Stream = <<>>) =>
        /\ pc = "Failed" => err.why \in OwnReasons
        /\ pc = "Done" => rowsProcessed = 0
        /\ target = target0

\* The phases of an invocation, in their order, and the phase of each
\* position of Upsert.
Phases == <<"Idle", "Building", "Loading", "Indexing", "Merging", "Done">>

LoadPhase == {"Begin1", "CreateTemp", "Prepare", "Loop", "CopyEnd", "StmtClose",
              "Commit1"}

PhaseOf(p) ==
    CASE p = "buildQuery" -> "Building"
      [] p \in LoadPhase -> "Loading"
      [] p \in {"CreateIndex", "Analyze"} -> "Indexing"
      [] p \in MergePhase -> "Merging"
      [] OTHER -> p

PhaseIndex(ph) == CHOOSE i \in 1..Len(Phases) : Phases[i] = ph

\* The caller invokes Upsert: from Idle, or anew after a return.
NewInvocation == pc \in {"Idle", "Done", "Failed"} /\ pc' = "buildQuery"

\* The last call made has failed, and it is not ANALYZE.
FatalStep ==
    /\ Len(issued') = Len(issued) + 1
    /\ ~issued'[Len(issued')].ok
    /\ issued'[Len(issued')].call # "Analyze"

\* C12: within an invocation Upsert stays in its phase, moves to the next
\* phase of Idle, Building, Loading, Indexing, Merging, Done, or moves
\* from a phase other than Done to Failed; it moves to Failed whenever a
\* template or a call other than ANALYZE fails; once in Done or Failed it
\* makes no database call, receives no row and changes nothing in the
\* database.
C12_PhasesInOrder ==
    [][\/ NewInvocation
       \/ /\ ~Returned
          /\ \/ PhaseOf(pc') = PhaseOf(pc)
             \/ pc' = "Failed"
             \/ /\ pc' # "Failed"
                /\ PhaseIndex(PhaseOf(pc')) = PhaseIndex(PhaseOf(pc)) + 1
          /\ (FatalStep \/ err' # err) => pc' = "Failed"
       \/ /\ Returned
          /\ pc' = pc
          /\ UNCHANGED <<issued, received, rowsProcessed, txn, open, temp, target>>
      ]_vars

\* A second invocation has failed on a row while the producer's next row
\* waits in the channel.
C12_Witness ==
    /\ pc = "Failed"
    /\ err.at = "Append"
    /\ prev.ran
    /\ chanBuf # <<>>

\* The call was made, and returned without error, before the k-th call.
OkBefore(call, k) ==
    \E j \in 1..(k - 1) : issued[j] = [call |-> call, ok |-> TRUE]

\* C13: the unique index is created only after the load transaction has
\* been committed, the merge transaction is opened only after the index has
\* been created, the revision and merge statements run only after both the
\* load's commit and the merge's begin, no transaction is open while the
\* index is created and the statistics are refreshed, and Upsert never
\* holds more than one transaction.
C13_TwoTransactionsInOrder ==
    /\ Cardinality(txn) <= 1
    /\ pc \in {"CreateIndex", "Analyze", "Begin2"} => txn = {}
    /\ \A k \in 1..Len(issued) :
        /\ issued[k].call = "CreateIndex" => OkBefore("Commit1", k)
        /\ issued[k].call = "Begin2" =>
                /\ OkBefore("CreateIndex", k)
                /\ issued[k - 1].call = "Analyze"
        /\ issued[k].call \in {"Revision", "Merge"} =>
                /\ OkBefore("Commit1", k)
                /\ OkBefore("Begin2", k)

\* The merge transaction is open, about to merge a full stream, after the
\* load transaction was committed on a session with rows.
C13_Witness ==
    /\ pc = "Merge"
    /\ txn # {}
    /\ rowsProcessed = MaxRows
    /\ [call |-> "Commit1", ok |-> TRUE] \in Range(issued)

\* buildQuery has returned its statements without error.
Built == pc \notin {"Idle", "buildQuery"} /\ err.at # "buildQuery"

\* C14: with revision tracking buildQuery returns a revision statement, and
\* the merge statement is executed right after the revision statement has
\* succeeded, which was executed right after the merge transaction was
\* begun; without revision tracking buildQuery returns the empty text as
\* revision statement, and no revision statement is executed.
C14_RevisionBeforeMerge ==
    /\ (Built /\ hasRevisions) => revisionQuery # EmptySQL
    /\ (Built /\ ~hasRevisions) => revisionQuery = EmptySQL
    /\ ~hasRevisions => (pc # "Revision" /\ "Revision" \notin Calls)
    /\ (hasRevisions /\ pc = "Merge") =>
            issued[Len(issued)] = [call |-> "Revision", ok |-> TRUE]
    /\ \A k \in 1..Len(issued) :
        /\ (hasRevisions /\ issued[k].call = "Merge") =>
                /\ issued[k - 1] = [call |-> "Revision", ok |-> TRUE]
                /\ issued[k - 2] = [call |-> "Begin2", ok |-> TRUE]
        /\ issued[k].call = "Revision" =>
                issued[k - 1] = [call |-> "Begin2", ok |-> TRUE]

\* With revision tracking, the merge statement has been executed on a target
\* row the revision statement had advanced within the same transaction.
C14_Witness ==
    /\ hasRevisions
    /\ pc = "Commit2"
    /\ \E r \in txnTarget : r.revision > 0
    /\ [call |-> "Merge", ok |-> TRUE] \in Range(issued)

\* The rows this invocation's loader has appended to its staging table.
Loaded == [k \in 1..Len(received) |-> NullTranslate(received[k])]

\* C15: no statement of Upsert fails for want of the staging table; once the
\* index has been created, an indexed staging table holding the rows of this
\* invocation exists; and the merge transaction sees the staging table with
\* exactly the rows this invocation loaded.
C15_StatementsSeeOwnStaging ==
    /\ err.why # "no relation"
    /\ pc \in {"Analyze", "Begin2"} =>
            \E c \in Conns : /\ temp[c].exists
                             /\ temp[c].indexed
                             /\ temp[c].rows = Loaded
    /\ pc \in {"Revision", "Merge", "Commit2"} =>
            /\ txnTemp.exists
            /\ txnTemp.rows = Loaded

\* C16: two invocations given different target table names derive different
\* staging table names.
C16_StagingNamesDistinct ==
    \A p, q \in Jobs :
        (/\ job[p].pc # "Idle"
         /\ job[q].pc # "Idle"
         /\ job[p].table # job[q].table)
            => job[p].tempTable # job[q].tempTable

\* What an invocation's stream puts into its staging table.
JobStaged(p) == [k \in 1..Len(job[p].rows) |-> NullTranslate(job[p].rows[k])]

\* How an invocation running alone can end: with its own stream merged into
\* its target table, or with the error of a statement handed a session
\* without the staging table (C15) and its target table as it was.
AloneTargets(p) ==
    IF hasRevisions
    THEN {MergeApply(t, JobStaged(p)) :
            t \in RevisionOutcomes(ConcTarget, JobStaged(p))}
    ELSE {MergeApply(ConcTarget, JobStaged(p))}

AloneFailures == {"no relation"}

\* C17: of two invocations running concurrently with different target
\* tables, each ends as it can end alone: returning nil with its own stream
\* merged into its own target table, or returning an error it can return
\* alone; and until it has returned nil its target table is as it was.
C17_NoInterference ==
    \A p \in Jobs :
        /\ job[p].pc = "Done" => tables[job[p].table] \in AloneTargets(p)
        /\ job[p].pc = "Failed" => job[p].why \in AloneFailures
        /\ job[p].pc # "Done" => tables[job[p].table] = ConcTarget

\* The call was made in this invocation and returned without error.
Succeeded(call) == [call |-> call, ok |-> TRUE] \in Range(issued)

\* C18: when Upsert has returned nil, the commit of the load, the creation
\* of the unique index and the commit of the merge have all succeeded; when
\* Upsert has returned an error, the merge transaction was not committed and
\* the target table is as it was when the invocation started.
C18_NilOnlyAfterCommits ==
    /\ pc = "Done" =>
            /\ Succeeded("Commit1")
            /\ Succeeded("CreateIndex")
            /\ Succeeded("Commit2")
    /\ pc = "Failed" =>
            /\ ~Succeeded("Commit2")
            /\ target = target0

\* Upsert has returned the error of the merge transaction's commit, after
\* the merge statement had written rows of the stream.
C18_Witness ==
    /\ pc = "Failed"
    /\ err.at = "Commit2"
    /\ Succeeded("Merge")
    /\ received # <<>>

\* C19: every invocation of Upsert eventually returns, and the producer of
\* every invocation eventually gets to close its channel: it is not left
\* waiting on a send for ever.
C19_BothTerminate ==
    /\ (pc = "buildQuery") ~> Returned
    /\ (pc # "Idle" /\ ~chanClosed) ~> chanClosed
====
